---- MODULE Spec2Model ----
(***************************************************************************)
(* Model of the undo/redo history of the Online Whiteboard Tool:           *)
(* class HistoryManager (src/js/history.js), the global wiring that        *)
(* restores it from localStorage on DOMContentLoaded and saves it every    *)
(* 30 seconds, and the helpers of src/js/utils.js it calls.                *)
(*                                                                         *)
(* JavaScript arrays are 0-based, TLA+ sequences 1-based: the entry the    *)
(* code calls history[i] is At(history, i) == history[i + 1].              *)
(***************************************************************************)
EXTENDS Integers, Sequences, FiniteSets, TLC

\* ------------------------------------------------------------------ bounds
\* maxHistorySize is a constructor parameter (default 50, history.js:6);
\* the model runs the manager with a small capacity.
MaxHistorySize == 2
\* Date.now() readings: every addState call reads a later clock value, and
\* no behaviour performs more than MaxClock addState calls.
MaxClock == 3
\* Length of the add-only runs of SpecAdd: four evictions.
MaxAdds == MaxHistorySize + 4
\* Largest number of addState calls one batchActions callback makes.
MaxBatch == 2

\* --------------------------------------------------------------- constants
\* null, as a value comparable with state objects
NULL == [v |-> "null", imageData |-> "null"]
\* The markup's initial `disabled` attribute of a toolbar button (index.html
\* is not part of the sources): the value before the first updateUI().
HTML == "html"
\* localStorage.getItem('whiteboard_history') === null
\* (form: what the stored text is; it matters once an item is present)
NoRecord ==
    [present |-> FALSE, form |-> "record", history |-> <<>>,
     currentIndex |-> -1]
BatchDescription == "Batch Action"
CheckpointDescription == "Checkpoint"
ToolDescriptions == {"Brush Stroke"}

\* A state object handed to addState: { v, imageData }.  v stands for its
\* own enumerable properties with primitive values (two distinct contents),
\* imageData for the object ctx.getImageData() returned: an ImageData, whose
\* data, width and height are accessors of ImageData.prototype, not own
\* properties.  "{}" is the plain empty object.
Payloads == {"p", "q"}

States == [v : Payloads, imageData : {"ImageData"}]

\* Object identity.  A state object kept in history[i].state is named by the
\* id of its entry; an object made by Utils.deepClone is a fresh object that
\* nothing else refers to; the object a caller passed to addState stays the
\* caller's.
StoredRef(id) == [obj |-> "stored", id |-> id]

CopyRef == [obj |-> "copy", id |-> 0]

ArgRef == [obj |-> "argument", id |-> 0]

\* The canvas before anything was drawn.  A bitmap is named by the clock
\* reading of the action that produced it.
Blank == 0

VARIABLES
    history,           \* HistoryManager.history
    currentIndex,      \* HistoryManager.currentIndex
    isUndoRedoAction,  \* HistoryManager.isUndoRedoAction
    clock,             \* Date.now() of the last addState
    storage,           \* localStorage['whiteboard_history'], parsed
    undoDisabled,      \* document.getElementById('undo').disabled
    redoDisabled,      \* document.getElementById('redo').disabled
    ret,               \* return value of the last operation
    last,              \* the last operation and its arguments
    log,               \* items appended since construction (add-only runs)
    replaying,         \* the last call set isUndoRedoAction = true on its way
    held,              \* objects the caller holds after the last call
    canvas             \* the bitmap on the canvas

vars == <<history, currentIndex, isUndoRedoAction, clock, storage,
          undoDisabled, redoDisabled, ret, last, log, replaying, held,
          canvas>>

\* ------------------------------------------------------------ pure helpers
At(h, i) == h[i + 1]

\* Array.prototype.slice(a, b) for 0 <= a
slice(h, a, b) == SubSeq(h, a + 1, IF b > Len(h) THEN Len(h) ELSE b)

\* Utils.deepClone: copies own enumerable properties recursively; an
\* ImageData has none, so its clone is the empty object.
deepClone(obj) ==
    IF obj = NULL THEN NULL ELSE [v |-> obj.v, imageData |-> "{}"]

\* JSON.parse(JSON.stringify(x)) of one history entry: strings and numbers
\* survive, and an object serialises to its own enumerable properties.
jsonEntry(e) ==
    [id |-> e.id, state |-> [v |-> e.state.v, imageData |-> "{}"],
     description |-> e.description, timestamp |-> e.timestamp]

\* the record written from the entries up to the cursor only
jsonRoundTrip_upToCursor(h, c) ==
    [present |-> TRUE, form |-> "record",
     history |-> [i \in 1..(c + 1) |-> jsonEntry(h[i])],
     currentIndex |-> c]

jsonRoundTrip(h, c) ==
    [present |-> TRUE, form |-> "record",
     history |-> [i \in 1..Len(h) |-> jsonEntry(h[i])],
     currentIndex |-> c]

canUndo(c) == c > 0

canRedo(h, c) == c < Len(h) - 1

\* the truncation with slice(0, currentIndex)
sliceFuture_offByOne(h, c) == IF c < Len(h) - 1 THEN slice(h, 0, c) ELSE h

\* history.js:20-22: drop the redo branch
sliceFuture(h, c) == IF c < Len(h) - 1 THEN slice(h, 0, c + 1) ELSE h

\* history.js:25-30.  Utils.generateId() is Date.now() in base 36 followed
\* by random digits: modelled as the (unique) clock reading.
historyItem(state, description, now) ==
    [id |-> now, state |-> deepClone(state),
     description |-> description, timestamp |-> now]

\* the size limit without currentIndex--
limitSize_keepIndex(h, c) ==
    IF Len(h) > MaxHistorySize
    THEN [history |-> Tail(h), currentIndex |-> c]
    ELSE [history |-> h, currentIndex |-> c]

\* the size limit testing length > maxHistorySize + 1
limitSize_offByOne(h, c) ==
    IF Len(h) > MaxHistorySize + 1
    THEN [history |-> Tail(h), currentIndex |-> c - 1]
    ELSE [history |-> h, currentIndex |-> c]

\* the size limit with pop() in place of shift()
limitSize_pop(h, c) ==
    IF Len(h) > MaxHistorySize
    THEN [history |-> SubSeq(h, 1, Len(h) - 1), currentIndex |-> c - 1]
    ELSE [history |-> h, currentIndex |-> c]

\* the size limit evicting two entries at once
limitSize_shiftTwo(h, c) ==
    IF Len(h) > MaxHistorySize
    THEN [history |-> Tail(Tail(h)), currentIndex |-> c - 2]
    ELSE [history |-> h, currentIndex |-> c]

\* the size limit evicting as soon as the capacity is reached
limitSize_atLimit(h, c) ==
    IF Len(h) >= MaxHistorySize
    THEN [history |-> Tail(h), currentIndex |-> c - 1]
    ELSE [history |-> h, currentIndex |-> c]

\* history.js:36-39
limitSize(h, c) ==
    IF Len(h) > MaxHistorySize
    THEN [history |-> Tail(h), currentIndex |-> c - 1]
    ELSE [history |-> h, currentIndex |-> c]

\* history.js:18-42 without updateUI
addState(h, c, state, description, now) ==
    limitSize(Append(sliceFuture(h, c), historyItem(state, description, now)),
              c + 1)

\* undo() that copies the state before it moves the cursor
undo_stale(h, c, f) ==
    IF canUndo(c)
    THEN [currentIndex |-> c - 1, ret |-> deepClone(At(h, c).state),
          isUndoRedoAction |-> FALSE, moved |-> TRUE]
    ELSE [currentIndex |-> c, ret |-> NULL,
          isUndoRedoAction |-> f, moved |-> FALSE]

\* undo() that raises the flag before the canUndo() test
undo_flagLeak(h, c, f) ==
    IF canUndo(c)
    THEN [currentIndex |-> c - 1, ret |-> deepClone(At(h, c - 1).state),
          isUndoRedoAction |-> FALSE, moved |-> TRUE]
    ELSE [currentIndex |-> c, ret |-> NULL,
          isUndoRedoAction |-> TRUE, moved |-> FALSE]

\* history.js:48-58 (h, c, f: history, currentIndex, isUndoRedoAction at
\* entry).  The result holds the fields at return, the value returned and
\* whether the guarded branch ran (it calls updateUI).  Line 50 raises the
\* flag and line 54 lowers it again before the return.
undo(h, c, f) ==
    IF canUndo(c)
    THEN [currentIndex |-> c - 1, ret |-> deepClone(At(h, c - 1).state),
          isUndoRedoAction |-> FALSE, moved |-> TRUE]
    ELSE [currentIndex |-> c, ret |-> NULL,
          isUndoRedoAction |-> f, moved |-> FALSE]

\* redo() that copies the state before it moves the cursor
redo_stale(h, c, f) ==
    IF canRedo(h, c)
    THEN [currentIndex |-> c + 1,
          ret |-> IF c >= 0 THEN deepClone(At(h, c).state) ELSE NULL,
          isUndoRedoAction |-> FALSE, moved |-> TRUE]
    ELSE [currentIndex |-> c, ret |-> NULL,
          isUndoRedoAction |-> f, moved |-> FALSE]

\* redo() that returns without lowering the flag
redo_flagLeak(h, c, f) ==
    IF canRedo(h, c)
    THEN [currentIndex |-> c + 1, ret |-> deepClone(At(h, c + 1).state),
          isUndoRedoAction |-> TRUE, moved |-> TRUE]
    ELSE [currentIndex |-> c, ret |-> NULL,
          isUndoRedoAction |-> f, moved |-> FALSE]

\* history.js:64-74
redo(h, c, f) ==
    IF canRedo(h, c)
    THEN [currentIndex |-> c + 1, ret |-> deepClone(At(h, c + 1).state),
          isUndoRedoAction |-> FALSE, moved |-> TRUE]
    ELSE [currentIndex |-> c, ret |-> NULL,
          isUndoRedoAction |-> f, moved |-> FALSE]

\* jumpToIndex() that rejects index 0
jumpToIndex_positive(h, c, f, index) ==
    IF index > 0 /\ index < Len(h)
    THEN [currentIndex |-> index, ret |-> deepClone(At(h, index).state),
          isUndoRedoAction |-> FALSE, moved |-> TRUE]
    ELSE [currentIndex |-> c, ret |-> NULL,
          isUndoRedoAction |-> f, moved |-> FALSE]

\* history.js:266-276
jumpToIndex(h, c, f, index) ==
    IF index >= 0 /\ index < Len(h)
    THEN [currentIndex |-> index, ret |-> deepClone(At(h, index).state),
          isUndoRedoAction |-> FALSE, moved |-> TRUE]
    ELSE [currentIndex |-> c, ret |-> NULL,
          isUndoRedoAction |-> f, moved |-> FALSE]

\* Array.prototype.splice(start, deleteCount) for 0 <= start <= Len(h)
splice(h, start, deleteCount) ==
    slice(h, 0, start) \o slice(h, start + deleteCount, Len(h))

\* history.js:236-247: the collapsing step of batchActions, run after the
\* callback left the manager at (h, c)
combineStates(h, c, startIndex, description) ==
    IF c > startIndex + 1
    THEN LET statesToCombine == slice(h, startIndex + 1, c + 1)
             h2 == splice(h, startIndex + 1, Len(statesToCombine) - 1)
             c2 == startIndex + 1
         IN [history |-> [h2 EXCEPT ![c2 + 1].description = description],
             currentIndex |-> c2]
    ELSE [history |-> h, currentIndex |-> c]

\* history.js:234: the callback, a run of addState calls (one per element of
\* states), each at the next clock reading
RECURSIVE actionCallback(_, _, _, _)
actionCallback(h, c, states, now) ==
    IF states = <<>>
    THEN [history |-> h, currentIndex |-> c]
    ELSE LET r == addState(h, c, Head(states), "Brush Stroke", now + 1)
         IN actionCallback(r.history, r.currentIndex, Tail(states), now + 1)

\* history.js:230-250 without updateUI
batchActions(h, c, states, description, now) ==
    LET startIndex == c
        r == actionCallback(h, c, states, now)
    IN combineStates(r.history, r.currentIndex, startIndex, description)

\* JavaScript a || b on numbers: 0 is falsy
jsOr(a, b) == IF a = 0 THEN b ELSE a

\* Utils.Storage.load, utils.js:422-430: the default (null) when the key is
\* absent, and also when JSON.parse throws; else the parsed value.
load(item) ==
    IF item.present /\ item.form # "unparsable" THEN item ELSE NoRecord

\* history.js:301-306: what the startup handler makes of the value loaded:
\* savedHistory && savedHistory.history && savedHistory.history.length > 0
restore(savedHistory) ==
    IF /\ savedHistory.present
       /\ savedHistory.form # "noHistory"
       /\ Len(savedHistory.history) > 0
    THEN [history |-> savedHistory.history,
          currentIndex |-> jsOr(savedHistory.currentIndex, -1),
          restored |-> TRUE]
    ELSE [history |-> <<>>, currentIndex |-> -1, restored |-> FALSE]

\* history.js:96-101
getCurrentState(h, c) ==
    IF c >= 0 /\ c < Len(h) THEN deepClone(At(h, c).state) ELSE NULL

\* history.js:283-290.  The spread {...item} copies the entry's own
\* properties one level deep: the state of each item returned is the object
\* the history keeps.
getRecentHistory(h, c, count) ==
    LET startIndex == IF Len(h) - count > 0 THEN Len(h) - count ELSE 0
        items == slice(h, startIndex, Len(h))
    IN [index \in 1..Len(items) |->
          [id |-> items[index].id,
           state |-> StoredRef(items[index].id),
           description |-> items[index].description,
           timestamp |-> items[index].timestamp,
           isCurrent |-> (startIndex + (index - 1) = c),
           displayIndex |-> startIndex + (index - 1) + 1]]

\* The history after the caller assigned v to a property of the object o it
\* holds: an entry changes when o is the very object the entry keeps.
assignProperty(h, o, v) ==
    [i \in 1..Len(h) |->
        IF o = StoredRef(h[i].id) THEN [h[i] EXCEPT !.state.v = v]
                                  ELSE h[i]]

\* ctx.putImageData(imageData, 0, 0) on a canvas showing cv: an ImageData is
\* painted (bitmap is what it holds); any other argument is a TypeError and
\* the canvas stays as it is.
putImageData(cv, imageData, bitmap) ==
    IF imageData = "ImageData" THEN bitmap ELSE cv

\* canvas.js:499-503.  The empty object is truthy.
loadFromHistory(cv, state, bitmap) ==
    IF state # NULL /\ state.imageData \in {"ImageData", "{}"}
    THEN putImageData(cv, state.imageData, bitmap)
    ELSE cv

\* history.js:130-140: the two buttons after updateUI()
uiUndo(c) == IF ~canUndo(c) THEN "disabled" ELSE "enabled"

\* the redo button refreshed from currentIndex < history.length
uiRedo_offByOne(h, c) == IF ~(c < Len(h)) THEN "disabled" ELSE "enabled"

uiRedo(h, c) == IF ~canRedo(h, c) THEN "disabled" ELSE "enabled"

\* history.js:258: the checkpoint marker prefixed to the description
checkpointLabel(description) == "* " \o description

\* States a batch callback passes to addState: canvas snapshots
CallbackStates == States

\* Arguments tried for jumpToIndex: every valid index and the invalid ones
\* on both sides.
JumpIndices == -1 .. MaxHistorySize

\* Arguments tried for getRecentHistory: fewer entries than the history may
\* hold, and all of them.
RecentCounts == 1 .. MaxHistorySize

\* Contents localStorage['whiteboard_history'] may be found with at startup,
\* whoever wrote them: text that is not JSON, an object without a history
\* property, and records whose history is any sequence of up to
\* MaxHistorySize saved entries and whose currentIndex is any integer from
\* two below the first index to two beyond the last.
SavedEntries ==
    {jsonEntry(historyItem(state, description, now)) :
        state \in States, description \in ToolDescriptions,
        now \in 1..MaxHistorySize}

SavedHistories ==
    UNION {{h \in [1..n -> SavedEntries] : \A i \in 1..n : h[i].id = i} :
              n \in 0..MaxHistorySize}

FoundRecords ==
    {[present |-> TRUE, form |-> "unparsable", history |-> <<>>,
      currentIndex |-> -1],
     [present |-> TRUE, form |-> "noHistory", history |-> <<>>,
      currentIndex |-> 0]}
    \cup {[present |-> TRUE, form |-> "record", history |-> h,
           currentIndex |-> c] :
             h \in SavedHistories, c \in -2..(MaxHistorySize + 1)}

\* The record kept of the last call: its name, the cursor and length before
\* it, an integer argument, and the state and description passed in.
Op(op, pre, preLen, arg, state, description) ==
    [op |-> op, pre |-> pre, preLen |-> preLen, arg |-> arg,
     state |-> state, description |-> description]

\* --------------------------------------------------------------------- Init
Init ==
    /\ history = <<>>
    /\ currentIndex = -1
    /\ isUndoRedoAction = FALSE
    /\ clock = 0
    /\ storage = NoRecord
    /\ undoDisabled = HTML
    /\ redoDisabled = HTML
    /\ ret = NULL
    /\ last = Op("new", -1, 0, 0, NULL, "")
    /\ log = <<>>
    /\ replaying = FALSE
    /\ held = {}
    /\ canvas = Blank

\* ------------------------------------------------------------------ actions
\* historyManager.addState(state, description), history.js:18-42
AddStateCore(state, description, op, limit, arg) ==
    /\ clock < limit
    /\ LET now == clock + 1
           r == addState(history, currentIndex, state, description, now)
       IN /\ history' = r.history
          /\ currentIndex' = r.currentIndex
          /\ clock' = now
          /\ undoDisabled' = uiUndo(r.currentIndex)
          /\ redoDisabled' = uiRedo(r.history, r.currentIndex)
    /\ ret' = NULL
    /\ last' = Op(op, currentIndex, Len(history), arg, state, description)
    /\ replaying' = FALSE
    /\ held' = {ArgRef}
    /\ UNCHANGED <<isUndoRedoAction, storage>>

AddState ==
    /\ \E state \in States, description \in ToolDescriptions :
          AddStateCore(state, description, "addState", MaxClock, 0)
    /\ UNCHANGED <<log, canvas>>

\* historyManager.addCheckpoint(state), history.js:257-259
AddCheckpoint ==
    /\ \E state \in States :
          AddStateCore(state, checkpointLabel(CheckpointDescription),
                       "addCheckpoint", MaxClock, 0)
    /\ UNCHANGED <<log, canvas>>

\* historyManager.undo(), history.js:48-58.  The flag is raised and lowered
\* inside the call; nothing else runs in between.
UndoCore(op) ==
    /\ LET r == undo(history, currentIndex, isUndoRedoAction)
       IN /\ currentIndex' = r.currentIndex
          /\ ret' = r.ret
          /\ undoDisabled' = IF r.moved THEN uiUndo(r.currentIndex)
                                        ELSE undoDisabled
          /\ redoDisabled' = IF r.moved THEN uiRedo(history, r.currentIndex)
                                        ELSE redoDisabled
          /\ isUndoRedoAction' = r.isUndoRedoAction
          /\ replaying' = r.moved
          /\ held' = IF r.moved THEN {CopyRef} ELSE {}
    /\ last' = Op(op, currentIndex, Len(history), 0, NULL, "")
    /\ UNCHANGED <<history, clock, storage, log>>

Undo == UndoCore("undo") /\ UNCHANGED canvas

\* historyManager.redo(), history.js:64-74
RedoCore(op) ==
    /\ LET r == redo(history, currentIndex, isUndoRedoAction)
       IN /\ currentIndex' = r.currentIndex
          /\ ret' = r.ret
          /\ undoDisabled' = IF r.moved THEN uiUndo(r.currentIndex)
                                        ELSE undoDisabled
          /\ redoDisabled' = IF r.moved THEN uiRedo(history, r.currentIndex)
                                        ELSE redoDisabled
          /\ isUndoRedoAction' = r.isUndoRedoAction
          /\ replaying' = r.moved
          /\ held' = IF r.moved THEN {CopyRef} ELSE {}
    /\ last' = Op(op, currentIndex, Len(history),
                  IF last.op = "undo" /\ last.pre > 0 THEN 1 ELSE 0, NULL, "")
    /\ UNCHANGED <<history, clock, storage, log>>

Redo == RedoCore("redo") /\ UNCHANGED canvas

\* a jumpToIndex that drops the entries after the index it jumps to
JumpToIndex_truncates ==
    /\ \E index \in JumpIndices :
          LET r == jumpToIndex(history, currentIndex, isUndoRedoAction,
                               index)
              h == IF r.moved THEN slice(history, 0, index + 1) ELSE history
          IN /\ currentIndex' = r.currentIndex
             /\ history' = h
             /\ ret' = r.ret
             /\ undoDisabled' = IF r.moved THEN uiUndo(r.currentIndex)
                                           ELSE undoDisabled
             /\ redoDisabled' = IF r.moved THEN uiRedo(h, r.currentIndex)
                                           ELSE redoDisabled
             /\ isUndoRedoAction' = r.isUndoRedoAction
             /\ replaying' = r.moved
             /\ held' = IF r.moved THEN {CopyRef} ELSE {}
             /\ last' = Op("jumpToIndex", currentIndex, Len(history), index,
                           NULL, "")
    /\ UNCHANGED <<clock, storage, log, canvas>>

\* historyManager.jumpToIndex(index), history.js:266-276
JumpToIndex ==
    /\ \E index \in JumpIndices :
          LET r == jumpToIndex(history, currentIndex, isUndoRedoAction,
                               index)
          IN /\ currentIndex' = r.currentIndex
             /\ ret' = r.ret
             /\ undoDisabled' = IF r.moved THEN uiUndo(r.currentIndex)
                                           ELSE undoDisabled
             /\ redoDisabled' = IF r.moved THEN uiRedo(history, r.currentIndex)
                                           ELSE redoDisabled
             /\ isUndoRedoAction' = r.isUndoRedoAction
             /\ replaying' = r.moved
             /\ held' = IF r.moved THEN {CopyRef} ELSE {}
             /\ last' = Op("jumpToIndex", currentIndex, Len(history), index,
                           NULL, "")
    /\ UNCHANGED <<history, clock, storage, log, canvas>>

\* clear() that keeps the oldest snapshot as the new base
Clear_keepFirst ==
    /\ history' = SubSeq(history, 1, 1)
    /\ currentIndex' = IF Len(history) > 0 THEN 0 ELSE -1
    /\ undoDisabled' = uiUndo(currentIndex')
    /\ redoDisabled' = uiRedo(history', currentIndex')
    /\ ret' = NULL
    /\ last' = Op("clear", currentIndex, Len(history), 0, NULL, "")
    /\ replaying' = FALSE
    /\ held' = {}
    /\ UNCHANGED <<isUndoRedoAction, clock, storage, log, canvas>>

\* historyManager.clear(), history.js:121-125 (CanvasManager.reset,
\* canvas.js:633-643)
Clear ==
    /\ history' = <<>>
    /\ currentIndex' = -1
    /\ undoDisabled' = uiUndo(-1)
    /\ redoDisabled' = uiRedo(<<>>, -1)
    /\ ret' = NULL
    /\ last' = Op("clear", currentIndex, Len(history), 0, NULL, "")
    /\ replaying' = FALSE
    /\ held' = {}
    /\ UNCHANGED <<isUndoRedoAction, clock, storage, log, canvas>>

\* historyManager.batchActions(callback, description), history.js:230-250
BatchActions ==
    /\ \E n \in 0..MaxBatch :
        \E states \in [1..n -> CallbackStates] :
          /\ clock + n <= MaxClock
          /\ LET r == batchActions(history, currentIndex, states,
                                   BatchDescription, clock)
             IN /\ history' = r.history
                /\ currentIndex' = r.currentIndex
                /\ undoDisabled' = uiUndo(r.currentIndex)
                /\ redoDisabled' = uiRedo(r.history, r.currentIndex)
          /\ clock' = clock + n
          /\ last' = Op("batchActions", currentIndex, Len(history), n,
                        IF n = 0 THEN NULL ELSE states[n], BatchDescription)
    /\ ret' = NULL
    /\ replaying' = FALSE
    /\ held' = {}
    /\ UNCHANGED <<isUndoRedoAction, storage, log, canvas>>

\* a timer callback that falls back to an empty history when the write fails
PeriodicSave_failClears ==
    /\ \E ok \in BOOLEAN :
          /\ storage' = IF Len(history) > 0 /\ ok
                        THEN jsonRoundTrip(history, currentIndex)
                        ELSE storage
          /\ history' = IF Len(history) > 0 /\ ~ok THEN <<>> ELSE history
          /\ currentIndex' = IF Len(history) > 0 /\ ~ok THEN -1
                                                        ELSE currentIndex
          /\ last' = Op("save", currentIndex, Len(history),
                        IF Len(history) > 0 /\ ok THEN 1 ELSE 0, NULL, "")
    /\ replaying' = FALSE
    /\ UNCHANGED <<isUndoRedoAction, clock, undoDisabled, redoDisabled, ret,
                   log, held, canvas>>

\* The 30-second timer, history.js:309-316, with Utils.Storage.save
\* (utils.js:408-414): setItem may throw (quota), which is caught.
PeriodicSave ==
    /\ \E ok \in BOOLEAN :
          /\ storage' = IF Len(history) > 0 /\ ok
                        THEN jsonRoundTrip(history, currentIndex)
                        ELSE storage
          /\ last' = Op("save", currentIndex, Len(history),
                        IF Len(history) > 0 /\ ok THEN 1 ELSE 0, NULL, "")
    /\ replaying' = FALSE
    /\ UNCHANGED <<history, currentIndex, isUndoRedoAction, clock,
                   undoDisabled, redoDisabled, ret, log, held, canvas>>

\* A page load: the DOMContentLoaded handler, history.js:297-306
DOMContentLoaded ==
    /\ LET r == restore(load(storage))
       IN /\ history' = r.history
          /\ currentIndex' = r.currentIndex
          /\ undoDisabled' = IF r.restored THEN uiUndo(r.currentIndex)
                                           ELSE HTML
          /\ redoDisabled' = IF r.restored
                             THEN uiRedo(r.history, r.currentIndex)
                             ELSE HTML
          /\ last' = Op("restore", currentIndex, Len(history),
                        IF r.restored THEN 1 ELSE 0, NULL, "")
    /\ isUndoRedoAction' = FALSE
    /\ ret' = NULL
    /\ log' = <<>>
    /\ replaying' = FALSE
    /\ held' = {}
    /\ canvas' = Blank
    /\ UNCHANGED <<clock, storage>>

\* WhiteboardApp.reset(), app.js:479-499: Utils.Storage.clear(), then
\* canvasManager.reset() and historyManager.clear()
ResetApp ==
    /\ storage' = NoRecord
    /\ history' = <<>>
    /\ currentIndex' = -1
    /\ undoDisabled' = uiUndo(-1)
    /\ redoDisabled' = uiRedo(<<>>, -1)
    /\ ret' = NULL
    /\ last' = Op("reset", currentIndex, Len(history), 0, NULL, "")
    /\ replaying' = FALSE
    /\ held' = {}
    /\ canvas' = Blank
    /\ UNCHANGED <<isUndoRedoAction, clock, log>>

Next ==
    \/ AddState
    \/ AddCheckpoint
    \/ Undo
    \/ Redo
    \/ JumpToIndex
    \/ Clear
    \/ BatchActions
    \/ PeriodicSave
    \/ DOMContentLoaded
    \/ ResetApp

Spec == Init /\ [][Next]_vars

\* A run of addState calls and nothing else, from the empty store; log keeps
\* every item appended, in order.
AddStateLogged ==
    /\ \E state \in States, description \in ToolDescriptions :
          /\ AddStateCore(state, description, "addState", MaxAdds, 0)
          /\ log' = Append(log, historyItem(state, description, clock + 1))
    /\ UNCHANGED canvas

NextAdd == AddStateLogged

SpecAdd == Init /\ [][NextAdd]_vars

\* historyManager.getCurrentState(), history.js:96-101
GetCurrentState ==
    /\ ret' = getCurrentState(history, currentIndex)
    /\ held' = IF ret' = NULL THEN {} ELSE {CopyRef}
    /\ last' = Op("getCurrentState", currentIndex, Len(history), 0, NULL, "")
    /\ replaying' = FALSE
    /\ UNCHANGED <<history, currentIndex, isUndoRedoAction, clock, storage,
                   undoDisabled, redoDisabled, log, canvas>>

\* historyManager.getRecentHistory(count), history.js:283-290: the caller
\* holds the state object of every item returned.
GetRecentHistory ==
    /\ \E count \in RecentCounts :
          LET items == getRecentHistory(history, currentIndex, count)
          IN /\ held' = {items[index].state : index \in 1..Len(items)}
             /\ last' = Op("getRecentHistory", currentIndex, Len(history),
                           count, NULL, "")
    /\ ret' = NULL
    /\ replaying' = FALSE
    /\ UNCHANGED <<history, currentIndex, isUndoRedoAction, clock, storage,
                   undoDisabled, redoDisabled, log, canvas>>

\* The caller writes to a property of an object it was handed by the last
\* call (or passed to it).
MutateHeld ==
    /\ \E o \in held, v \in Payloads :
          /\ history' = assignProperty(history, o, v)
          /\ last' = Op("mutate", currentIndex, Len(history), o.id, NULL, "")
    /\ replaying' = FALSE
    /\ UNCHANGED <<currentIndex, isUndoRedoAction, clock, storage,
                   undoDisabled, redoDisabled, ret, log, held, canvas>>

\* The history operations, the reads, and a caller that writes to what it
\* was handed; no persistence.
NextAlias ==
    \/ AddState
    \/ Undo
    \/ Redo
    \/ JumpToIndex
    \/ Clear
    \/ GetCurrentState
    \/ GetRecentHistory
    \/ MutateHeld

SpecAlias == Init /\ [][NextAlias]_vars

\* BrushTool.onMouseUp, tools.js:246-254, at the end of a stroke of more than
\* one point: the canvas shows a new bitmap (named by the clock reading) and,
\* the flag being down, the tool records it.  last.arg keeps the bitmap the
\* canvas showed before the stroke.
BrushStroke ==
    /\ ~isUndoRedoAction
    /\ \E state \in States :
          AddStateCore(state, "Brush Stroke", "tool", MaxAdds, canvas)
    /\ canvas' = clock + 1
    /\ UNCHANGED log

\* an undo handler that records the repainted canvas as a new snapshot
CanvasUndo_records ==
    /\ LET r == undo(history, currentIndex, isUndoRedoAction)
           a == IF r.moved
                THEN addState(history, r.currentIndex,
                              [v |-> r.ret.v, imageData |-> "ImageData"],
                              "Undo", clock + 1)
                ELSE [history |-> history, currentIndex |-> r.currentIndex]
       IN /\ history' = a.history
          /\ currentIndex' = a.currentIndex
          /\ ret' = r.ret
          /\ undoDisabled' = IF r.moved THEN uiUndo(a.currentIndex)
                                        ELSE undoDisabled
          /\ redoDisabled' = IF r.moved THEN uiRedo(a.history, a.currentIndex)
                                        ELSE redoDisabled
          /\ isUndoRedoAction' = r.isUndoRedoAction
          /\ replaying' = r.moved
          /\ held' = IF r.moved THEN {CopyRef} ELSE {}
          /\ clock' = IF r.moved THEN clock + 1 ELSE clock
    /\ last' = Op("canvasUndo", currentIndex, Len(history), 0, NULL, "")
    /\ UNCHANGED <<storage, log, canvas>>

\* CanvasManager.undo(), canvas.js:508-515: historyManager.undo(), then
\* loadFromHistory of what it returned.  The snapshot under the cursor was
\* taken of the bitmap named by its id.
CanvasUndo ==
    /\ UndoCore("canvasUndo")
    /\ canvas' = IF currentIndex' >= 0
                 THEN loadFromHistory(canvas, ret',
                                      At(history, currentIndex').id)
                 ELSE canvas

\* CanvasManager.redo(), canvas.js:520-527
CanvasRedo ==
    /\ RedoCore("canvasRedo")
    /\ canvas' = IF currentIndex' >= 0
                 THEN loadFromHistory(canvas, ret',
                                      At(history, currentIndex').id)
                 ELSE canvas

\* The whiteboard as its user drives it: strokes, undo and redo.
NextCanvas ==
    \/ BrushStroke
    \/ CanvasUndo
    \/ CanvasRedo

SpecCanvas == Init /\ [][NextCanvas]_vars

\* canUndo() answering currentIndex >= 0
CanUndo_orFirst ==
    /\ last' = Op("canUndo", currentIndex, Len(history),
                  IF currentIndex >= 0 THEN 1 ELSE 0, NULL, "")
    /\ replaying' = FALSE
    /\ UNCHANGED <<history, currentIndex, isUndoRedoAction, clock, storage,
                   undoDisabled, redoDisabled, ret, log, held, canvas>>

\* historyManager.canUndo(), history.js:80-82; last.arg is 1 for true
CanUndo ==
    /\ last' = Op("canUndo", currentIndex, Len(history),
                  IF canUndo(currentIndex) THEN 1 ELSE 0, NULL, "")
    /\ replaying' = FALSE
    /\ UNCHANGED <<history, currentIndex, isUndoRedoAction, clock, storage,
                   undoDisabled, redoDisabled, ret, log, held, canvas>>

\* historyManager.canRedo(), history.js:88-90; last.arg is 1 for true
CanRedo ==
    /\ last' = Op("canRedo", currentIndex, Len(history),
                  IF canRedo(history, currentIndex) THEN 1 ELSE 0, NULL, "")
    /\ replaying' = FALSE
    /\ UNCHANGED <<history, currentIndex, isUndoRedoAction, clock, storage,
                   undoDisabled, redoDisabled, ret, log, held, canvas>>

\* Every operation of Spec, with the two predicates called in between.
NextQuery ==
    \/ Next
    \/ CanUndo
    \/ CanRedo

SpecQuery == Init /\ [][NextQuery]_vars

\* Between two page loads the stored item is replaced from outside the
\* history manager (another tab, another version of the page, the user).
Tamper ==
    /\ \E item \in FoundRecords :
          /\ storage' = item
          /\ last' = Op("tamper", currentIndex, Len(history), 0, NULL, "")
    /\ replaying' = FALSE
    /\ UNCHANGED <<history, currentIndex, isUndoRedoAction, clock,
                   undoDisabled, redoDisabled, ret, log, held, canvas>>

\* Page loads over whatever the storage holds.
NextTamper ==
    \/ Tamper
    \/ DOMContentLoaded

SpecTamper == Init /\ [][NextTamper]_vars

\* ------------------------------------------------------------------- claims
IsAdd(op) == op \in {"addState", "addCheckpoint"}

\* C1: in every reachable state, after construction, startup restore and any
\* sequence of history operations, currentIndex is an integer with
\* -1 <= currentIndex <= history.length - 1.
C1_CurrentIndexInRange ==
    /\ currentIndex \in Int
    /\ -1 <= currentIndex
    /\ currentIndex <= Len(history) - 1

\* C1 witness: an addState that evicted the oldest entry left the cursor on
\* the last index of a full history.
C1_Witness ==
    /\ IsAdd(last.op)
    /\ last.preLen = MaxHistorySize
    /\ last.pre = MaxHistorySize - 1
    /\ currentIndex = Len(history) - 1

\* C2: once an operation has completed, history.length <= maxHistorySize.
C2_LengthBounded == Len(history) <= MaxHistorySize

\* C2 witness: addState was called on a full history with the cursor at the
\* end, and the history is still exactly full.
C2_Witness ==
    /\ last.op = "addState"
    /\ last.preLen = MaxHistorySize
    /\ last.pre = last.preLen - 1
    /\ Len(history) = MaxHistorySize
    /\ At(history, currentIndex).id = clock

\* C3: branch truncation.  addState(D) called with currentIndex = c <
\* history.length - 1 leaves exactly the old entries 0..c followed by the new
\* snapshot D, currentIndex = c + 1, and canRedo() false.
C3_BranchTruncation ==
    [][(last'.op = "addState" /\ currentIndex < Len(history) - 1) =>
         /\ Len(history') = currentIndex + 2
         /\ SubSeq(history', 1, currentIndex + 1)
              = SubSeq(history, 1, currentIndex + 1)
         /\ history'[currentIndex + 2].state.v = last'.state.v
         /\ history'[currentIndex + 2].description = last'.description
         /\ history'[currentIndex + 2].id = clock'
         /\ currentIndex' = currentIndex + 1
         /\ ~canRedo(history', currentIndex')]_vars

\* C3 witness: addState(D) was called with the cursor undone to an earlier
\* entry; D now follows that entry and the entries undone are gone.
C3_Witness ==
    /\ last.op = "addState"
    /\ last.pre >= 0
    /\ last.pre < last.preLen - 1
    /\ Len(history) = last.pre + 2
    /\ currentIndex = last.pre + 1
    /\ At(history, currentIndex).id = clock
    /\ At(history, currentIndex - 1).id < clock - 1

\* C4: round trip.  From any state with currentIndex > 0, undo() followed at
\* once by redo() leaves currentIndex and the sequence as before the undo, and
\* redo() returns a state deep-equal to that of the snapshot that was current.
C4_UndoRedoRoundTrip ==
    /\ [](currentIndex > 0 =>
            LET u == undo(history, currentIndex, isUndoRedoAction)
                r == redo(history, u.currentIndex, u.isUndoRedoAction)
            IN /\ u.moved
               /\ r.moved
               /\ r.currentIndex = currentIndex
               /\ r.ret = At(history, currentIndex).state)
    /\ [][last'.op \in {"undo", "redo"} => history' = history]_vars

\* C4 witness: a redo made right after a successful undo brought the cursor
\* back and returned the state under it.
C4_Witness ==
    /\ last.op = "redo"
    /\ last.arg = 1
    /\ currentIndex > 0
    /\ currentIndex = last.pre + 1
    /\ ret = At(history, currentIndex).state
    /\ ret # At(history, currentIndex - 1).state

\* C5: capacity law.  From the empty store, after M + k addState calls
\* (k >= 1) the length is exactly M, the stored snapshots are the last M
\* added, in insertion order, and currentIndex = M - 1.
C5_CapacityLaw ==
    Len(log) > MaxHistorySize =>
        /\ Len(history) = MaxHistorySize
        /\ history = SubSeq(log, Len(log) - MaxHistorySize + 1, Len(log))
        /\ currentIndex = MaxHistorySize - 1

\* C5 witness: M + 2 snapshots were added and the two oldest are gone.
C5_Witness ==
    /\ Len(log) = MaxHistorySize + 2
    /\ Len(history) = MaxHistorySize
    /\ history[1] = log[3]
    /\ history[MaxHistorySize] = log[Len(log)]
    /\ history[1] # log[1]

\* C6: a non-boundary step moves the cursor by exactly one and returns the
\* snapshot now under the cursor: undo() at c > 0 goes to c - 1 and returns a
\* copy of history[c - 1].state, redo() at c < length - 1 goes to c + 1 and
\* returns a copy of history[c + 1].state.
C6_StepByOne ==
    [][/\ (last'.op = "undo" /\ currentIndex > 0) =>
            /\ currentIndex' = currentIndex - 1
            /\ ret' = At(history, currentIndex - 1).state
       /\ (last'.op = "redo" /\ currentIndex < Len(history) - 1) =>
            /\ currentIndex' = currentIndex + 1
            /\ ret' = At(history, currentIndex + 1).state]_vars

\* C6 witness: an undo from an interior cursor returned the state of the
\* entry before it, which differs from the state it left.
C6_Witness ==
    /\ last.op = "undo"
    /\ last.pre > 0
    /\ currentIndex = last.pre - 1
    /\ ret = At(history, currentIndex).state
    /\ ret # At(history, last.pre).state

\* C7: boundary calls are safe no-ops.  undo() with currentIndex <= 0 and
\* redo() with currentIndex >= length - 1 return null and leave currentIndex,
\* the sequence and the replaying flag unchanged.
C7_BoundaryNoOp ==
    [][(\/ (last'.op = "undo" /\ currentIndex <= 0)
        \/ (last'.op = "redo" /\ currentIndex >= Len(history) - 1)) =>
         /\ ret' = NULL
         /\ currentIndex' = currentIndex
         /\ history' = history
         /\ isUndoRedoAction' = isUndoRedoAction]_vars

\* C7 witness: undo() was called with the cursor on the first snapshot.
C7_Witness ==
    /\ last.op = "undo"
    /\ last.pre = 0
    /\ last.preLen > 1
    /\ currentIndex = 0
    /\ ret = NULL
    /\ ~isUndoRedoAction

\* C8: jumpToIndex(i) with 0 <= i < history.length sets currentIndex to i and
\* returns a copy of history[i].state; with i negative or >= history.length
\* it returns null and leaves currentIndex and the sequence unchanged.
C8_JumpToIndex ==
    [][last'.op = "jumpToIndex" =>
         IF 0 <= last'.arg /\ last'.arg < Len(history)
         THEN /\ currentIndex' = last'.arg
              /\ ret' = At(history, last'.arg).state
              /\ history' = history
         ELSE /\ ret' = NULL
              /\ currentIndex' = currentIndex
              /\ history' = history]_vars

\* C8 witness: a jump from the last snapshot of a full history to index 0.
C8_Witness ==
    /\ last.op = "jumpToIndex"
    /\ last.arg = 0
    /\ last.pre = MaxHistorySize - 1
    /\ currentIndex = 0
    /\ ret = At(history, 0).state

\* C9: batchActions collapsing.  A batchActions call whose callback makes
\* n >= 2 addState calls leaves exactly one entry more than the pre-batch
\* cursor position (length = pre-batch currentIndex + 2), with currentIndex
\* on that new entry and its description equal to the batch description.
C9_BatchCollapses ==
    [][(last'.op = "batchActions" /\ last'.arg >= 2) =>
         /\ Len(history') = currentIndex + 2
         /\ currentIndex' = currentIndex + 1
         /\ At(history', currentIndex').description = BatchDescription]_vars

\* C10: startup restore is verbatim.  When the record written by the periodic
\* save holds { history: H, currentIndex: c } with H non-empty, then after the
\* startup handler the history equals H and currentIndex equals c.
C10_RestoreVerbatim ==
    (last.op = "restore" /\ storage.present /\ Len(storage.history) > 0) =>
        /\ history = storage.history
        /\ currentIndex = storage.currentIndex


\* Entries of h that are no longer anywhere in h2 (ids are unique).
Destroyed(h, h2) ==
    {i \in 1..Len(h) : \A j \in 1..Len(h2) : h2[j] # h[i]}

\* Number of oldest entries an operation appending n entries to a sequence
\* of length len pushes out of the capacity.
Overflow(len, n) ==
    IF len + n > MaxHistorySize THEN len + n - MaxHistorySize ELSE 0

\* C11 as stated: a stored snapshot stays in the sequence (same state and
\* description) across every operation other than clear() and an addState
\* that overflows capacity, which removes only the oldest entry.
C11_OnlyOverflowOrClear ==
    [][last'.op \in {"addState", "addCheckpoint", "batchActions", "undo",
                     "redo", "jumpToIndex", "save"} =>
         Destroyed(history, history') \subseteq
            1..Overflow(Len(history),
                        IF IsAdd(last'.op) THEN 1 ELSE last'.arg)]_vars

\* C11 amended: undo, redo, jumpToIndex and the periodic save leave the
\* sequence as it is; addState, addCheckpoint and batchActions keep the
\* entries 0..currentIndex (they discard the entries after the cursor), less
\* the oldest ones that the additions push out of the capacity; what
\* batchActions removes beyond that are entries its own callback added.
C11_DestroyedOnlyByDesign ==
    [][/\ last'.op \in {"undo", "redo", "jumpToIndex", "save"} =>
            history' = history
       /\ (IsAdd(last'.op) \/ last'.op = "batchActions") =>
            LET kept == SubSeq(history, 1, currentIndex + 1)
                n == IF IsAdd(last'.op) THEN 1 ELSE last'.arg
                e == IF n = 0 THEN 0 ELSE Overflow(Len(kept), n)
                left == IF n = 0 THEN history ELSE kept
            IN IF e >= Len(left)
               THEN Destroyed(history, history') = 1..Len(history)
               ELSE /\ SubSeq(history', 1, Len(left) - e)
                         = SubSeq(left, e + 1, Len(left))
                    /\ \A j \in (Len(left) - e + 1)..Len(history') :
                          history'[j].id > clock]_vars

\* C11 witness: addCheckpoint was called on a full history with the cursor
\* undone to the first entry; that entry is still there and the one after it
\* was replaced by the checkpoint.
C11_Witness ==
    /\ last.op = "addCheckpoint"
    /\ last.pre = 0
    /\ last.preLen = MaxHistorySize
    /\ Len(history) = 2
    /\ At(history, 0).id < clock
    /\ At(history, 1).id = clock


\* C13 as stated: the replaying flag is raised only inside an undo or redo
\* call and lowered before the call returns; between operations the flag is
\* false; addState, addCheckpoint, clear and batchActions never raise it.
C13_OnlyUndoRedoRaise ==
    /\ ~isUndoRedoAction
    /\ replaying => last.op \in {"undo", "redo"}

\* C13 amended: the replaying flag is raised only inside an undo, redo or
\* jumpToIndex call that moves the cursor, and lowered before the call
\* returns; between operations the flag is false; a call that moves nothing
\* and addState, addCheckpoint, clear, batchActions never raise it.
C13_ReplayMachine ==
    /\ ~isUndoRedoAction
    /\ replaying =>
          /\ last.op \in {"undo", "redo", "jumpToIndex"}
          /\ last.op = "undo" => last.pre > 0
          /\ last.op = "redo" => last.pre < last.preLen - 1
          /\ last.op = "jumpToIndex" =>
                (0 <= last.arg /\ last.arg < last.preLen)
    /\ (last.op \in {"undo", "redo", "jumpToIndex"}
          /\ currentIndex # last.pre) => replaying

\* C13 witness: a jumpToIndex call moved the cursor, raised the flag on its
\* way and returned with the flag lowered.
C13_Witness ==
    /\ last.op = "jumpToIndex"
    /\ currentIndex = last.arg
    /\ currentIndex # last.pre
    /\ replaying
    /\ ~isUndoRedoAction


\* C12: no aliasing into the store.  Writing to an object that a read
\* operation (undo, redo, jumpToIndex, getCurrentState, getRecentHistory)
\* handed out, or to the object that was passed to addState, never changes
\* what a later undo, redo or getCurrentState returns.
C12_NoAliasing ==
    [][last'.op = "mutate" =>
         /\ getCurrentState(history', currentIndex')
              = getCurrentState(history, currentIndex)
         /\ undo(history', currentIndex', isUndoRedoAction').ret
              = undo(history, currentIndex, isUndoRedoAction).ret
         /\ redo(history', currentIndex', isUndoRedoAction').ret
              = redo(history, currentIndex, isUndoRedoAction).ret]_vars


\* C14: every recorded user action can be undone.  Immediately after a
\* drawing tool recorded a snapshot with addState, canUndo() is true and a
\* single undo repaints the canvas with the bitmap it showed before that
\* action.
C14_RecordedActionUndoable ==
    [][(last.op = "tool" /\ last'.op = "canvasUndo") =>
         /\ canUndo(currentIndex)
         /\ canvas' = last.arg]_vars


\* C15: periodic durability.  Each time the timer fires while history is
\* non-empty and the write succeeds, the record under 'whiteboard_history'
\* afterwards holds exactly the in-memory sequence and currentIndex of that
\* moment; when history is empty the timer writes nothing.
C15_PeriodicDurability ==
    [][last'.op = "save" =>
         IF Len(history) > 0
         THEN last'.arg = 1 =>
                 /\ storage'.present
                 /\ storage'.history = history
                 /\ storage'.currentIndex = currentIndex
         ELSE storage' = storage]_vars

\* C15 witness: the timer fired on a full history whose cursor had been
\* undone to the first entry, and the record now holds all of it.
C15_Witness ==
    /\ last.op = "save"
    /\ last.arg = 1
    /\ Len(history) = MaxHistorySize
    /\ currentIndex = 0
    /\ storage.history = history
    /\ storage.currentIndex = 0

\* C17: persistence failure is contained.  When the write (or the
\* serialisation) fails during a periodic save, the callback returns
\* normally and the in-memory sequence, currentIndex and flag are as before;
\* the record of the last successful save is still there.
C17_SaveFailureContained ==
    [][(last'.op = "save" /\ last'.arg = 0) =>
         /\ history' = history
         /\ currentIndex' = currentIndex
         /\ isUndoRedoAction' = isUndoRedoAction
         /\ storage' = storage]_vars

\* C17 witness: a save failed on a non-empty history after an earlier save
\* had succeeded and the history had changed since.
C17_Witness ==
    /\ last.op = "save"
    /\ last.arg = 0
    /\ Len(history) > 0
    /\ storage.present
    /\ storage.history # history

\* C18: clear() from any reachable state leaves history empty and
\* currentIndex = -1, after which canUndo() and canRedo() are both false and
\* undo(), redo() and getCurrentState() return null.
C18_ClearEmpties ==
    [][last'.op \in {"clear", "reset"} =>
         /\ history' = <<>>
         /\ currentIndex' = -1
         /\ ~canUndo(currentIndex')
         /\ ~canRedo(history', currentIndex')
         /\ undo(history', currentIndex', isUndoRedoAction').ret = NULL
         /\ redo(history', currentIndex', isUndoRedoAction').ret = NULL
         /\ ~undo(history', currentIndex', isUndoRedoAction').moved
         /\ ~redo(history', currentIndex', isUndoRedoAction').moved
         /\ getCurrentState(history', currentIndex') = NULL]_vars

\* C18 witness: clear() was called on a full history with the cursor on the
\* last entry.
C18_Witness ==
    /\ last.op = "clear"
    /\ last.preLen = MaxHistorySize
    /\ last.pre = MaxHistorySize - 1
    /\ history = <<>>
    /\ currentIndex = -1


\* C20: for every sequence of addState calls from an empty store that does
\* not exceed capacity, length = currentIndex + 1 after each call, canUndo()
\* is false after the first call and true after the second and every later
\* call.
C20_AddOnlyRuns ==
    (Len(log) >= 1 /\ Len(log) <= MaxHistorySize) =>
        /\ Len(history) = Len(log)
        /\ Len(history) = currentIndex + 1
        /\ Len(log) = 1 => ~canUndo(currentIndex)
        /\ Len(log) >= 2 => canUndo(currentIndex)

\* C20 witness: as many addState calls as the capacity allows were made on
\* the empty store; the last one left canUndo() true.
C20_Witness ==
    /\ last.op = "addState"
    /\ Len(log) = MaxHistorySize
    /\ Len(history) = MaxHistorySize
    /\ currentIndex = MaxHistorySize - 1
    /\ canUndo(currentIndex)


\* C19: canUndo() and canRedo() are pure predicates.  In every reachable
\* state canUndo() answers currentIndex > 0 and canRedo() answers
\* currentIndex < history.length - 1, and a call of either changes neither
\* the sequence, the cursor nor the replaying flag.
C19_PurePredicates ==
    [][/\ last'.op = "canUndo" => ((last'.arg = 1) <=> (currentIndex > 0))
       /\ last'.op = "canRedo" =>
            ((last'.arg = 1) <=> (currentIndex < Len(history) - 1))
       /\ last'.op \in {"canUndo", "canRedo"} =>
            /\ history' = history
            /\ currentIndex' = currentIndex
            /\ isUndoRedoAction' = isUndoRedoAction]_vars

\* C19 witness: canUndo() answered false and, on the same state, canRedo()
\* would answer true: the cursor is on the first of several snapshots.
C19_Witness ==
    /\ last.op = "canUndo"
    /\ last.arg = 0
    /\ currentIndex = 0
    /\ Len(history) = MaxHistorySize
    /\ canRedo(history, currentIndex)


\* A stored item that is not a well-formed record: unparsable text, no
\* history, or a currentIndex outside 0..length-1.
Malformed(item) ==
    /\ item.present
    /\ \/ item.form # "record"
       \/ item.currentIndex < 0
       \/ item.currentIndex > Len(item.history) - 1

\* C16: malformed restored payload.  For any stored content that is not a
\* well-formed record, startup leaves the store empty (history = [],
\* currentIndex = -1) rather than partially restored.
C16_MalformedFallsBack ==
    (last.op = "restore" /\ Malformed(storage)) =>
        /\ history = <<>>
        /\ currentIndex = -1


\* C21: batchActions keeps the final state and nothing else of the batch.
\* After a batch whose callback makes n >= 2 addState calls, every entry at
\* an index <= the pre-batch currentIndex is the snapshot it was, the single
\* entry after them holds the state passed to the last addState of the
\* batch, and no intermediate snapshot of the batch is left.
C21_BatchKeepsFinalState ==
    [][(last'.op = "batchActions" /\ last'.arg >= 2) =>
         /\ Len(history') = currentIndex + 2
         /\ SubSeq(history', 1, currentIndex + 1)
              = SubSeq(history, 1, currentIndex + 1)
         /\ history'[currentIndex + 2].state.v = last'.state.v
         /\ history'[currentIndex + 2].id = clock'
         /\ \A j \in 1..Len(history') :
               history'[j].id <= clock \/ history'[j].id = clock']_vars

\* C22: after batchActions(callback, description) whose callback makes at
\* least one addState call (exactly one included), the entry at currentIndex
\* carries the batch's description, not the one passed to the inner addState.
C22_BatchDescription ==
    [][(last'.op = "batchActions" /\ last'.arg >= 1) =>
         /\ currentIndex' >= 0
         /\ At(history', currentIndex').description = last'.description
         /\ last'.description = BatchDescription]_vars


\* C23: replay suppression.  No snapshot is recorded while the replaying
\* flag is raised: the only steps that change the sequence are those of a
\* tool that found the flag down, and an undo or a redo, with the repaint
\* that follows it, leaves history.length and every entry as they were.
C23_ReplaySuppression ==
    [][/\ last'.op \in {"canvasUndo", "canvasRedo"} =>
            /\ Len(history') = Len(history)
            /\ history' = history
       /\ history' # history =>
            /\ last'.op = "tool"
            /\ ~isUndoRedoAction
            /\ ~replaying']_vars

\* C23 witness: an undo moved the cursor back, raising the flag on its way,
\* and the history is as long as before.
C23_Witness ==
    /\ last.op = "canvasUndo"
    /\ replaying
    /\ currentIndex = last.pre - 1
    /\ Len(history) = last.preLen
    /\ Len(history) = MaxHistorySize


\* C24: stored payload fidelity.  The state kept in a snapshot by addState,
\* and the state returned by undo/redo, is deep-equal to the state object the
\* collaborator passed in ({ imageData } holding the pixel buffer, width and
\* height).
C24_PayloadFidelity ==
    /\ last.op = "tool" => At(history, currentIndex).state = last.state
    /\ (last.op \in {"canvasUndo", "canvasRedo"} /\ replaying) =>
          /\ ret = At(history, currentIndex).state
          /\ ret.imageData = "ImageData"


\* The last call was one that ends in updateUI(): an addition, clear(),
\* batchActions, an undo, redo or jumpToIndex that moved the cursor, or a
\* startup that found a saved history.
Refreshed ==
    \/ last.op \in {"addState", "addCheckpoint", "clear", "reset",
                    "batchActions"}
    \/ last.op \in {"undo", "redo", "jumpToIndex"} /\ replaying
    \/ last.op = "restore" /\ last.arg = 1

C26_CursorAndEmptiness ==
    /\ (Len(history) = 0) <=> (currentIndex = -1)
    /\ Len(history) > 0 =>
          /\ currentIndex >= 0
          /\ getCurrentState(history, currentIndex) # NULL

\* C27: navigation does not touch the sequence.  undo, redo and jumpToIndex,
\* successful or not, leave history.length and every stored snapshot's id,
\* state, description, timestamp and position unchanged.
C27_NavigationFrame ==
    [][last'.op \in {"undo", "redo", "jumpToIndex"} =>
         /\ Len(history') = Len(history)
         /\ \A i \in 1..Len(history) :
               /\ history'[i].id = history[i].id
               /\ history'[i].state = history[i].state
               /\ history'[i].description = history[i].description
               /\ history'[i].timestamp = history[i].timestamp]_vars

\* C27 witness: a jumpToIndex moved the cursor back on a full history, which
\* is still full.
C27_Witness ==
    /\ last.op = "jumpToIndex"
    /\ last.arg < last.pre
    /\ currentIndex = last.arg
    /\ last.preLen = MaxHistorySize
    /\ Len(history) = MaxHistorySize


\* C28: eviction happens only with the cursor at the end.  An addState call
\* removes the oldest snapshot only if, before the call, history.length =
\* maxHistorySize and currentIndex = history.length - 1, and after any
\* addState currentIndex = history.length - 1.
C28_EvictionOnlyAtEnd ==
    [][IsAdd(last'.op) =>
         /\ (Len(history) > 0 /\ 1 \in Destroyed(history, history')) =>
               /\ Len(history) = MaxHistorySize
               /\ currentIndex = Len(history) - 1
         /\ currentIndex' = Len(history') - 1]_vars


\* C29: cleared history is not resurrected.  Once a timer tick has elapsed
\* on a history emptied by clear(), a page reload restores none of the
\* snapshots that clear() discarded.
C29_ClearedNotResurrected ==
    [][(last.op = "save" /\ Len(history) = 0 /\ last'.op = "restore") =>
         history' = <<>>]_vars


\* C30: canvas and cursor agree.  Whenever no handler is running and history
\* is non-empty, after a recorded tool action, a successful undo or a
\* successful redo, the bitmap on the canvas is the one captured in the
\* snapshot at currentIndex.
C30_CanvasMatchesCursor ==
    (/\ Len(history) > 0
     /\ currentIndex >= 0
     /\ \/ last.op = "tool"
        \/ last.op \in {"canvasUndo", "canvasRedo"} /\ replaying) =>
        canvas = At(history, currentIndex).id

====
